---------------------------- MODULE Spec2Model ----------------------------
(***************************************************************************)
(* Model of the HRS3300 heart-rate sensor driver (src/src/lib.rs,          *)
(* src/src/definitions.rs): the driver object, the I2C bus it owns and the *)
(* registers of the device behind that bus.                                *)
(***************************************************************************)
EXTENDS Integers, Sequences, FiniteSets, TLC

(***************************************************************************)
(* Bounds of the model.                                                    *)
(***************************************************************************)
\* number of public driver calls in one behaviour
MaxCalls == 2
\* bus transactions of one call whose outcome the bus fault pattern decides
MaxTx == 5

(***************************************************************************)
(* definitions.rs: registers, register fields, ADC resolution codes.       *)
(***************************************************************************)
ID == 0
ENABLE == 1
C1DATAM == 8
PDRIVER == 12
RES == 22
HGAIN == 23

HEN == 128
PDRIVE1 == 8
PDRIVE0 == 64
PON == 32

Bits8 == 0
Bits14 == 6
Bits18 == 10
AdcResolution == Bits8..Bits18

(***************************************************************************)
(* lib.rs: associated constants.                                           *)
(***************************************************************************)
DEFAULT_DEVICE_ADDRESS == 68
DEFAULT_DEVICE_ID == 33
RESERVED_RESOLUTION_BITS == 96
RESERVED_ENABLE_BITS == 96
RESERVED_PDRIVE_BITS == 8
HGAIN_REC == 16
SAMPLE_BLOCK_LEN == 7

(***************************************************************************)
(* Machine arithmetic: u8 / u32 bit operations on naturals.                *)
(***************************************************************************)
RECURSIVE BitAnd(_, _)
BitAnd(a, b) ==
    IF a = 0 \/ b = 0 THEN 0
    ELSE (IF a % 2 = 1 /\ b % 2 = 1 THEN 1 ELSE 0) + 2 * BitAnd(a \div 2, b \div 2)

RECURSIVE BitOr(_, _)
BitOr(a, b) ==
    IF a = 0 THEN b
    ELSE IF b = 0 THEN a
    ELSE (IF a % 2 = 1 \/ b % 2 = 1 THEN 1 ELSE 0) + 2 * BitOr(a \div 2, b \div 2)

RECURSIVE Pow2(_)
Pow2(n) == IF n = 0 THEN 1 ELSE 2 * Pow2(n - 1)

\* x << n in u32.  The driver shifts a byte by at most 16 and 1 by at most
\* 18, so no shift of it reaches 2^22 and none wraps in 32 bits.
Shl(x, n) == x * Pow2(n)
\* !x in u8
NotU8(x) == 255 - x


(***************************************************************************)
(* State.                                                                  *)
(*   address, adc_resolution, resolution_mask : the fields of HRS3300      *)
(*   regs    : the device's writable registers, by register address        *)
(*   last    : the most recent public call: its name, argument, result,    *)
(*             returned value, bus transactions in order, and the driver   *)
(*             and device state it started from                            *)
(*   prev    : name, argument, result and starting state of the call       *)
(*             before it                                                   *)
(*   ncalls  : number of public calls made                                 *)
(*   done    : history variable, read by no operation: the registers this  *)
(*             instance has written successfully so far, and ID once an    *)
(*             init has read the expected identity byte                    *)
(*   cfg_res : history variable, read by no operation: the result of the   *)
(*             most recent call among init and set_adc_resolution, "none"  *)
(*             before the first                                            *)
(***************************************************************************)
VARIABLES address, adc_resolution, resolution_mask, regs, last, prev, ncalls,
          done, cfg_res

vars == <<address, adc_resolution, resolution_mask, regs, last, prev, ncalls,
          done, cfg_res>>

WritableRegs == {ENABLE, PDRIVER, RES, HGAIN}

\* register files the device may hold when the driver is constructed
InitRegFiles ==
    { [r \in WritableRegs |-> 0],
      [r \in WritableRegs |-> 255],
      (ENABLE :> 232) @@ (PDRIVER :> 104) @@ (RES :> 102) @@ (HGAIN :> 16),
      (ENABLE :> 24) @@ (PDRIVER :> 64) @@ (RES :> 10) @@ (HGAIN :> 8) }

\* identity bytes the device may answer with
DeviceIds == {DEFAULT_DEVICE_ID, 32, 255}

\* sample blocks the device may answer with
SampleBlocks ==
    { <<2, 0, 0, 0, 0, 0, 0>>,
      <<0, 1, 15, 0, 63, 7, 63>>,
      <<255, 255, 255, 255, 255, 255, 255>>,
      <<0, 0, 0, 104, 64, 0, 48>> }

\* bus fault patterns of one call: the set of transaction numbers that fail
FaultSets == {{}} \cup {{k} : k \in 1..MaxTx}

\* What the bus and the device do during one call: the transactions that
\* fail, the byte answered for a read of register ID and the 7 bytes answered
\* for a block read at C1DATAM.
Bus(fails, id, block) == [fails |-> fails, id |-> id, block |-> block]

(***************************************************************************)
(* The I2C transport (embedded_hal blocking Write / WriteRead) and the     *)
(* device behind it.  s is [drv, regs, tx]: the driver's fields, the       *)
(* device's registers and the transactions issued so far in this call.     *)
(* The n-th transaction of the call fails iff n \in bus.fails; a failed    *)
(* transaction has no effect on the device and returns no data.            *)
(***************************************************************************)
i2c_write(s, bus, addr, bytes) ==
    LET ok == (Len(s.tx) + 1) \notin bus.fails
        t  == [kind |-> "write", addr |-> addr, bytes |-> bytes, len |-> 0,
               data |-> <<>>, ok |-> ok]
    IN  [s   |-> [s EXCEPT !.tx = Append(@, t),
                           !.regs = IF ok /\ bytes[1] \in WritableRegs
                                    THEN [@ EXCEPT ![bytes[1]] = bytes[2]]
                                    ELSE @],
         res |-> IF ok THEN "Ok" ELSE "Err",
         val |-> <<>>]

\* what the device answers for a read of n bytes starting at register start
DeviceRead(s, bus, start, n) ==
    IF start = ID THEN <<bus.id>>
    ELSE IF start = C1DATAM THEN SubSeq(bus.block, 1, n)
    ELSE IF start \in WritableRegs THEN <<s.regs[start]>>
    ELSE [i \in 1..n |-> 0]

i2c_write_read(s, bus, addr, bytes, n) ==
    LET ok  == (Len(s.tx) + 1) \notin bus.fails
        got == IF ok THEN DeviceRead(s, bus, bytes[1], n) ELSE <<>>
        t   == [kind |-> "write_read", addr |-> addr, bytes |-> bytes, len |-> n,
                data |-> got, ok |-> ok]
    IN  [s   |-> [s EXCEPT !.tx = Append(@, t)],
         res |-> IF ok THEN "Ok" ELSE "Err",
         val |-> got]

(***************************************************************************)
(* Private register access of the driver.  A result is [s, res, val] with  *)
(* res one of "Ok", "Comm" (Error::Comm) and "DeviceId" (Error::DeviceId). *)
(***************************************************************************)
\* write_register as it would be with one retry of a failed write
write_register_Retry(s, bus, register, value) ==
    LET r == i2c_write(s, bus, s.drv.address, <<register, value>>)
        q == IF r.res = "Ok" THEN r
             ELSE i2c_write(r.s, bus, s.drv.address, <<register, value>>)
    IN  [q EXCEPT !.res = IF q.res = "Ok" THEN "Ok" ELSE "Comm"]

write_register(s, bus, register, value) ==
    LET r == i2c_write(s, bus, s.drv.address, <<register, value>>)
    IN  [r EXCEPT !.res = IF r.res = "Ok" THEN "Ok" ELSE "Comm"]

read_registers(s, bus, start, n) ==
    LET r == i2c_write_read(s, bus, s.drv.address, <<start>>, n)
    IN  IF r.res # "Ok" THEN [s |-> r.s, res |-> "Comm", val |-> <<>>]
        ELSE [s |-> r.s, res |-> "Ok", val |-> r.val]

read_register(s, bus, register) ==
    LET r == read_registers(s, bus, register, 1)
    IN  IF r.res # "Ok" THEN r
        ELSE [r EXCEPT !.val = <<r.val[1]>>]

\* read_sample_block as it would be starting one register late (C0DATAM)
read_sample_block_OffByOne(s, bus) ==
    read_registers(s, bus, C1DATAM + 1, SAMPLE_BLOCK_LEN)

read_sample_block(s, bus) ==
    read_registers(s, bus, C1DATAM, SAMPLE_BLOCK_LEN)

(***************************************************************************)
(* Public operations of the driver, as functions from the state a call     *)
(* starts in (and the bus fault pattern) to its result [s, res, val].      *)
(* val is <<>> for (), <<id>> for a device id, <<c0, c1>> for a raw sample *)
(* and <<>> for None.                                                      *)
(***************************************************************************)
\* HRS3300::new
new(addr, resolution) ==
    [address |-> addr, adc_resolution |-> resolution, resolution_mask |-> 0]

\* HRS3300::default
default == new(DEFAULT_DEVICE_ADDRESS, Bits14)

\* get_device_id as it would be dropping the top bit of the byte read
get_device_id_Masked(s, bus) ==
    LET r == read_register(s, bus, ID)
    IN  IF r.res # "Ok" THEN r
        ELSE [s |-> r.s, res |-> "Ok", val |-> <<BitAnd(r.val[1], 127)>>]

get_device_id(s, bus) ==
    LET r == read_register(s, bus, ID)
    IN  IF r.res # "Ok" THEN r ELSE [s |-> r.s, res |-> "Ok", val |-> <<r.val[1]>>]

\* (1 << (8 + (self.adc_resolution as u32))) - 1
ResolutionMask(resolution) == Shl(1, 8 + resolution) - 1

\* set_adc_resolution as it would be skipping the write of an unchanged
\* resolution
set_adc_resolution_SkipSame(s, bus, resolution) ==
    IF s.drv.adc_resolution = resolution
         /\ s.drv.resolution_mask = ResolutionMask(resolution)
    THEN [s |-> s, res |-> "Ok", val |-> <<>>]
    ELSE
    LET s1 == [s EXCEPT !.drv.adc_resolution = resolution,
                        !.drv.resolution_mask = ResolutionMask(resolution)]
        resolution_reg_val == BitOr(s1.drv.adc_resolution, RESERVED_RESOLUTION_BITS)
    IN  write_register(s1, bus, RES, resolution_reg_val)

\* set_adc_resolution as it would be without the reserved bits of RES
set_adc_resolution_NoReserved(s, bus, resolution) ==
    LET s1 == [s EXCEPT !.drv.adc_resolution = resolution,
                        !.drv.resolution_mask = ResolutionMask(resolution)]
        resolution_reg_val == s1.drv.adc_resolution
    IN  write_register(s1, bus, RES, resolution_reg_val)

\* set_adc_resolution as it would be writing the register first and storing
\* the resolution and mask only when the write succeeded
set_adc_resolution_WriteFirst(s, bus, resolution) ==
    LET resolution_reg_val == BitOr(resolution, RESERVED_RESOLUTION_BITS)
        r == write_register(s, bus, RES, resolution_reg_val)
    IN  IF r.res # "Ok" THEN r
        ELSE [r EXCEPT !.s.drv.adc_resolution = resolution,
                       !.s.drv.resolution_mask = ResolutionMask(resolution)]

\* set_adc_resolution as it would be computing the register value from the
\* resolution stored before the call
set_adc_resolution_StaleCode(s, bus, resolution) ==
    LET resolution_reg_val == BitOr(s.drv.adc_resolution, RESERVED_RESOLUTION_BITS)
        s1 == [s EXCEPT !.drv.adc_resolution = resolution,
                        !.drv.resolution_mask = ResolutionMask(resolution)]
    IN  write_register(s1, bus, RES, resolution_reg_val)

set_adc_resolution(s, bus, resolution) ==
    LET s1 == [s EXCEPT !.drv.adc_resolution = resolution,
                        !.drv.resolution_mask = ResolutionMask(resolution)]
        resolution_reg_val == BitOr(s1.drv.adc_resolution, RESERVED_RESOLUTION_BITS)
    IN  write_register(s1, bus, RES, resolution_reg_val)

\* init as it would be without the comparison of the device id
init_NoIdCheck(s, bus) ==
    LET r1 == get_device_id(s, bus)
    IN  IF r1.res # "Ok" THEN [r1 EXCEPT !.val = <<>>] ELSE
    LET pdrive_reg_val == BitOr(BitOr(PDRIVE0, PON), RESERVED_PDRIVE_BITS)
        r2 == write_register(r1.s, bus, PDRIVER, pdrive_reg_val)
    IN  IF r2.res # "Ok" THEN r2 ELSE
    LET r3 == set_adc_resolution(r2.s, bus, r2.s.drv.adc_resolution)
    IN  IF r3.res # "Ok" THEN r3 ELSE
    LET r4 == write_register(r3.s, bus, HGAIN, HGAIN_REC)
    IN  IF r4.res # "Ok" THEN r4 ELSE
    LET enable_reg_val == BitOr(BitOr(HEN, PDRIVE1), RESERVED_ENABLE_BITS)
        r5 == write_register(r4.s, bus, ENABLE, enable_reg_val)
    IN  IF r5.res # "Ok" THEN r5 ELSE
        [s |-> r5.s, res |-> "Ok", val |-> <<>>]

\* init as it would be with the ENABLE write ahead of the HGAIN write
init_EnableBeforeGain(s, bus) ==
    LET r1 == get_device_id(s, bus)
    IN  IF r1.res # "Ok" THEN [r1 EXCEPT !.val = <<>>]
        ELSE IF r1.val[1] # DEFAULT_DEVICE_ID
             THEN [s |-> r1.s, res |-> "DeviceId", val |-> <<>>]
        ELSE
    LET pdrive_reg_val == BitOr(BitOr(PDRIVE0, PON), RESERVED_PDRIVE_BITS)
        r2 == write_register(r1.s, bus, PDRIVER, pdrive_reg_val)
    IN  IF r2.res # "Ok" THEN r2 ELSE
    LET r3 == set_adc_resolution(r2.s, bus, r2.s.drv.adc_resolution)
    IN  IF r3.res # "Ok" THEN r3 ELSE
    LET enable_reg_val == BitOr(BitOr(HEN, PDRIVE1), RESERVED_ENABLE_BITS)
        r4 == write_register(r3.s, bus, ENABLE, enable_reg_val)
    IN  IF r4.res # "Ok" THEN r4 ELSE
    LET r5 == write_register(r4.s, bus, HGAIN, HGAIN_REC)
    IN  IF r5.res # "Ok" THEN r5 ELSE
        [s |-> r5.s, res |-> "Ok", val |-> <<>>]

init(s, bus) ==
    LET r1 == get_device_id(s, bus)
    IN  IF r1.res # "Ok" THEN [r1 EXCEPT !.val = <<>>]
        ELSE IF r1.val[1] # DEFAULT_DEVICE_ID
             THEN [s |-> r1.s, res |-> "DeviceId", val |-> <<>>]
        ELSE
    LET pdrive_reg_val == BitOr(BitOr(PDRIVE0, PON), RESERVED_PDRIVE_BITS)
        r2 == write_register(r1.s, bus, PDRIVER, pdrive_reg_val)
    IN  IF r2.res # "Ok" THEN r2 ELSE
    LET r3 == set_adc_resolution(r2.s, bus, r2.s.drv.adc_resolution)
    IN  IF r3.res # "Ok" THEN r3 ELSE
    LET r4 == write_register(r3.s, bus, HGAIN, HGAIN_REC)
    IN  IF r4.res # "Ok" THEN r4 ELSE
    LET enable_reg_val == BitOr(BitOr(HEN, PDRIVE1), RESERVED_ENABLE_BITS)
        r5 == write_register(r4.s, bus, ENABLE, enable_reg_val)
    IN  IF r5.res # "Ok" THEN r5 ELSE
        [s |-> r5.s, res |-> "Ok", val |-> <<>>]

\* enable as it would be writing PDRIVER ahead of ENABLE
enable_PdriverFirst(s, bus, en) ==
    LET pdrive_val == IF en THEN BitOr(RESERVED_PDRIVE_BITS, PON)
                      ELSE BitAnd(RESERVED_PDRIVE_BITS, NotU8(PON))
        r1 == write_register(s, bus, PDRIVER, pdrive_val)
    IN  IF r1.res # "Ok" THEN r1 ELSE
    LET enable_val == IF en THEN BitOr(RESERVED_ENABLE_BITS, HEN)
                      ELSE BitAnd(RESERVED_ENABLE_BITS, NotU8(HEN))
        r2 == write_register(r1.s, bus, ENABLE, enable_val)
    IN  IF r2.res # "Ok" THEN r2 ELSE
        [s |-> r2.s, res |-> "Ok", val |-> <<>>]

enable(s, bus, en) ==
    LET enable_val == IF en THEN BitOr(RESERVED_ENABLE_BITS, HEN)
                      ELSE BitAnd(RESERVED_ENABLE_BITS, NotU8(HEN))
        r1 == write_register(s, bus, ENABLE, enable_val)
    IN  IF r1.res # "Ok" THEN r1 ELSE
    LET pdrive_val == IF en THEN BitOr(RESERVED_PDRIVE_BITS, PON)
                      ELSE BitAnd(RESERVED_PDRIVE_BITS, NotU8(PON))
        r2 == write_register(r1.s, bus, PDRIVER, pdrive_val)
    IN  IF r2.res # "Ok" THEN r2 ELSE
        [s |-> r2.s, res |-> "Ok", val |-> <<>>]

\* the c1 decode as it would be with a 5-bit mask on block[4]
DecodeC1_NarrowHigh(block, mask) ==
    LET a == Shl(block[1], 3)
        b == BitOr(a, Shl(BitAnd(block[5], 31), 11))
        c == BitOr(b, BitAnd(block[6], 7))
    IN  BitAnd(c, mask)

\* The decode of read_raw_sample.  Sequences count from 1: block[k + 1] is
\* the source's block[k].
\* the ambient-light channel (c1) of a sample block
DecodeC1(block, mask) ==
    LET a == Shl(block[1], 3)
        b == BitOr(a, Shl(BitAnd(block[5], 63), 11))
        c == BitOr(b, BitAnd(block[6], 7))
    IN  BitAnd(c, mask)

\* the reflectance channel (c0) of a sample block
DecodeC0(block, mask) ==
    LET a == Shl(block[2], 8)
        b == BitOr(a, Shl(BitAnd(block[3], 15), 4))
        c == BitOr(b, Shl(BitAnd(block[7], 48), 16))
        d == BitOr(c, BitAnd(block[7], 15))
    IN  BitAnd(d, mask)

read_raw_sample(s, bus) ==
    LET r == read_sample_block(s, bus)
    IN  IF r.res # "Ok" THEN r
        ELSE [s   |-> r.s, res |-> "Ok",
              val |-> <<DecodeC0(r.val, r.s.drv.resolution_mask),
                        DecodeC1(r.val, r.s.drv.resolution_mask)>>]

\* sample_one as it would be returning the reflectance as a heart rate
sample_one_ReturnsRaw(s, bus) ==
    LET r == read_raw_sample(s, bus)
    IN  IF r.res # "Ok" THEN r
        ELSE [s |-> r.s, res |-> "Ok", val |-> <<r.val[1]>>]

sample_one(s, bus) ==
    LET r == read_raw_sample(s, bus)
    IN  IF r.res # "Ok" THEN r
        ELSE [s |-> r.s, res |-> "Ok", val |-> <<>>]

(***************************************************************************)
(* The state machine: a driver built by HRS3300::default on a device in    *)
(* some state, then up to MaxCalls public calls, each one atomic (the      *)
(* driver is synchronous and owns the bus).                                *)
(***************************************************************************)
\* the driver's fields and the device's registers, as a snapshot
Snapshot ==
    [regs |-> regs, adc_resolution |-> adc_resolution,
     resolution_mask |-> resolution_mask, done |-> done]

\* what the first n transactions tx of a call op establish: the registers
\* written, and ID when op is init and the identity byte read is the expected one
Established(op, tx, n) ==
    {tx[i].bytes[1] : i \in {j \in 1..n : tx[j].kind = "write" /\ tx[j].ok}}
    \cup (IF op = "init" /\ n >= 1 /\ tx[1].ok /\ tx[1].data = <<DEFAULT_DEVICE_ID>>
          THEN {ID} ELSE {})

\* the state a call starts in: no transaction issued yet
Cur ==
    [drv  |-> [address |-> address, adc_resolution |-> adc_resolution,
               resolution_mask |-> resolution_mask],
     regs |-> regs,
     tx   |-> <<>>]

Init ==
    /\ address = default.address
    /\ adc_resolution = default.adc_resolution
    /\ resolution_mask = default.resolution_mask
    /\ regs \in InitRegFiles
    /\ last = [op |-> "default", arg |-> <<>>, res |-> "Ok", val |-> <<>>,
               tx |-> <<>>,
               pre |-> [regs |-> regs, adc_resolution |-> default.adc_resolution,
                        resolution_mask |-> default.resolution_mask,
                        done |-> {}]]
    /\ prev = [op |-> "none", arg |-> <<>>, res |-> "Ok", tx |-> <<>>,
               pre |-> [regs |-> regs, adc_resolution |-> default.adc_resolution,
                        resolution_mask |-> default.resolution_mask,
                        done |-> {}]]
    /\ ncalls = 0
    /\ done = {}
    /\ cfg_res = "none"

\* a public call op(arg) with result r
Call(op, arg, r) ==
    /\ ncalls < MaxCalls
    /\ ncalls' = ncalls + 1
    /\ address' = r.s.drv.address
    /\ adc_resolution' = r.s.drv.adc_resolution
    /\ resolution_mask' = r.s.drv.resolution_mask
    /\ regs' = r.s.regs
    /\ last' = [op |-> op, arg |-> arg, res |-> r.res, val |-> r.val,
                tx |-> r.s.tx, pre |-> Snapshot]
    /\ prev' = [op |-> last.op, arg |-> last.arg, res |-> last.res,
                tx |-> last.tx, pre |-> last.pre]
    /\ done' = done \cup Established(op, r.s.tx, Len(r.s.tx))
    /\ cfg_res' = IF op \in {"init", "set_adc_resolution"} THEN r.res ELSE cfg_res

\* bytes answered for a read the call does not issue
NoId == 0
NoBlock == <<0, 0, 0, 0, 0, 0, 0>>

CallInit ==
    \E fails \in FaultSets, id \in DeviceIds :
        Call("init", <<>>, init(Cur, Bus(fails, id, NoBlock)))

CallEnable ==
    \E fails \in FaultSets, en \in BOOLEAN :
        Call("enable", <<en>>, enable(Cur, Bus(fails, NoId, NoBlock), en))

CallGetDeviceId ==
    \E fails \in FaultSets, id \in DeviceIds :
        Call("get_device_id", <<>>, get_device_id(Cur, Bus(fails, id, NoBlock)))

CallSetAdcResolution ==
    \E fails \in FaultSets, resolution \in AdcResolution :
        Call("set_adc_resolution", <<resolution>>,
             set_adc_resolution(Cur, Bus(fails, NoId, NoBlock), resolution))

CallReadRawSample ==
    \E fails \in FaultSets, block \in SampleBlocks :
        Call("read_raw_sample", <<>>, read_raw_sample(Cur, Bus(fails, NoId, block)))

CallSampleOne ==
    \E fails \in FaultSets, block \in SampleBlocks :
        Call("sample_one", <<>>, sample_one(Cur, Bus(fails, NoId, block)))

Next ==
    \/ CallInit
    \/ CallEnable
    \/ CallGetDeviceId
    \/ CallSetAdcResolution
    \/ CallReadRawSample
    \/ CallSampleOne

Spec == Init /\ [][Next]_vars

(***************************************************************************)
(* Properties.                                                             *)
(***************************************************************************)
\* the last call was op and returned Ok
Returned(op) == last.op = op /\ last.res = "Ok"

\* the mask a resolution code implies: (1 << (8 + code)) - 1
ImpliedMask(code) == Pow2(8 + code) - 1

\* the bits of a register value other than those of field
OtherBits(value, field) == BitAnd(value, 255 - field)

\* C1: in every reachable state the stored resolution_mask is the mask the
\* stored adc_resolution implies, (1 << (8 + code)) - 1.
C1_MaskMatchesResolution ==
    resolution_mask = ImpliedMask(adc_resolution)

\* C2: a successful enable(e) leaves every bit of the ENABLE register other
\* than HEN, and every bit of the PDRIVER register other than PON, as it was
\* on the device before the call.
C2_EnableKeepsOtherBits ==
    Returned("enable") =>
        /\ OtherBits(regs[ENABLE], HEN) = OtherBits(last.pre.regs[ENABLE], HEN)
        /\ OtherBits(regs[PDRIVER], PON) = OtherBits(last.pre.regs[PDRIVER], PON)

\* C3: a successful enable(true) followed by a successful enable(false)
\* leaves the bits of ENABLE other than HEN and of PDRIVER other than PON
\* equal to their values before the first of the two calls.
C3_ToggleRestoresOtherBits ==
    ( /\ prev.op = "enable" /\ prev.res = "Ok" /\ prev.arg = <<TRUE>>
      /\ Returned("enable") /\ last.arg = <<FALSE>> ) =>
        /\ OtherBits(regs[ENABLE], HEN) = OtherBits(prev.pre.regs[ENABLE], HEN)
        /\ OtherBits(regs[PDRIVER], PON) = OtherBits(prev.pre.regs[PDRIVER], PON)

\* the block a successful read_raw_sample got from the bus; b[k + 1] is the
\* byte at offset k
LastBlock == last.tx[1].data

\* C4: the reflectance (c0) value read_raw_sample returns is
\* ((b[1] << 8) | ((b[2] & 0x0F) << 4) | (bits 5:4 of b[6] at result bits
\* 17:16) | (b[6] & 0x0F)) & resolution_mask.
C4_ReflectanceDecode ==
    Returned("read_raw_sample") =>
        LET b == LastBlock
            hi == (BitAnd(b[7], 48) \div 16) * Pow2(16)
            all == BitOr(BitOr(BitOr(b[2] * 256, BitAnd(b[3], 15) * 16), hi),
                         BitAnd(b[7], 15))
        IN  last.val[1] = BitAnd(all, resolution_mask)

\* C5: the ambient-light (c1) value read_raw_sample returns is
\* ((b[0] << 3) | ((b[4] & 0x7F) << 11) | (b[5] & 0x07)) & resolution_mask.
C5_AmbientDecode ==
    Returned("read_raw_sample") =>
        LET b == LastBlock
            all == BitOr(BitOr(b[1] * 8, BitAnd(b[5], 127) * Pow2(11)),
                         BitAnd(b[6], 7))
        IN  last.val[2] = BitAnd(all, resolution_mask)

C7_IdMismatchStopsInit ==
    ( /\ last.op = "init" /\ Len(last.tx) >= 1
      /\ last.tx[1].ok /\ last.tx[1].data # <<DEFAULT_DEVICE_ID>> ) =>
        /\ last.res = "DeviceId"
        /\ Len(last.tx) = 1
        /\ last.tx[1].kind = "write_read" /\ last.tx[1].bytes = <<ID>>
        /\ regs = last.pre.regs

C7_Witness ==
    /\ last.op = "init" /\ last.res = "DeviceId"
    /\ last.tx[1].ok /\ last.tx[1].data = <<255>>

\* the registers init accesses, in order
InitOrder == <<ID, PDRIVER, RES, HGAIN, ENABLE>>

\* C8: the bus transactions of an init are, in order, a read of ID and writes
\* of PDRIVER, RES, HGAIN and ENABLE (a call that stops early issues a prefix
\* of them), and the ENABLE write is issued only after the PDRIVER, RES and
\* HGAIN writes of the same call succeeded.
C8_InitOrder ==
    last.op = "init" =>
        /\ Len(last.tx) <= Len(InitOrder)
        /\ \A i \in 1..Len(last.tx) :
             /\ last.tx[i].bytes[1] = InitOrder[i]
             /\ last.tx[i].kind = (IF i = 1 THEN "write_read" ELSE "write")
             /\ (last.tx[i].kind = "write" /\ last.tx[i].bytes[1] = ENABLE) =>
                    {PDRIVER, RES, HGAIN} \subseteq Established("init", last.tx, i - 1)

C8_Witness ==
    /\ Returned("init")
    /\ Len(last.tx) = 5
    /\ last.tx[5].bytes[1] = ENABLE /\ last.tx[5].ok

\* C9: in every call the first bus transaction that fails is the last one of
\* the call (no retry, no further step, no rollback write), the call returns
\* Error::Comm, and the registers written before it keep the values written.
C9_FirstFailureEndsCall ==
    last.op # "default" =>
        /\ \A i \in 1..Len(last.tx) :
             /\ ~last.tx[i].ok => (i = Len(last.tx) /\ last.res = "Comm")
             /\ (last.tx[i].kind = "write" /\ last.tx[i].ok) =>
                    regs[last.tx[i].bytes[1]] = last.tx[i].bytes[2]
        /\ last.res = "Comm" => (Len(last.tx) >= 1 /\ ~last.tx[Len(last.tx)].ok)

C9_Witness ==
    /\ last.op = "init" /\ last.res = "Comm"
    /\ Len(last.tx) = 4 /\ ~last.tx[4].ok
    /\ regs[PDRIVER] = 104 /\ last.pre.regs[PDRIVER] # 104
    /\ regs[HGAIN] = last.pre.regs[HGAIN]

\* transaction t writes the ENABLE register with the HEN bit set
WritesHen(t) ==
    t.kind = "write" /\ t.bytes[1] = ENABLE /\ BitAnd(t.bytes[2], HEN) = HEN

\* C10 as stated: over any sequence of calls the driver writes ENABLE with HEN
\* set only once the identity check has passed and PDRIVER, RES and HGAIN
\* have been written by this instance.
C10_EnableOnlyOnceConfigured ==
    \A i \in 1..Len(last.tx) :
        WritesHen(last.tx[i]) =>
            {ID, PDRIVER, RES, HGAIN} \subseteq
                (last.pre.done \cup Established(last.op, last.tx, i - 1))

\* C10 as amended: the driver keeps no lifecycle state.  init writes ENABLE
\* with HEN set only after, in the same call, the identity check passed and
\* PDRIVER, RES and HGAIN were written; enable(true) writes it as its first
\* transaction from any state; no other operation writes it.
C10_EnableGuardedOnlyInInit ==
    /\ \A i \in 1..Len(last.tx) :
         WritesHen(last.tx[i]) =>
            \/ last.op = "enable" /\ last.arg = <<TRUE>> /\ i = 1
            \/ /\ last.op = "init"
               /\ {ID, PDRIVER, RES, HGAIN} \subseteq Established("init", last.tx, i - 1)
    /\ (last.op = "enable" /\ last.arg = <<TRUE>>) => WritesHen(last.tx[1])

C10_Witness ==
    /\ last.op = "enable" /\ last.arg = <<TRUE>>
    /\ last.pre.done = {}
    /\ WritesHen(last.tx[1]) /\ last.tx[1].ok
    /\ BitAnd(regs[ENABLE], HEN) = HEN

\* C11: two consecutive successful set_adc_resolution(r) send the same
\* payload [0x16, r | 0x60] both times and leave the same stored resolution
\* and mask after the second call as after the first.
C11_SetResolutionIdempotent ==
    ( /\ prev.op = "set_adc_resolution" /\ prev.res = "Ok"
      /\ Returned("set_adc_resolution") /\ last.arg = prev.arg ) =>
        LET r == last.arg[1]
            payload == <<RES, BitOr(r, 96)>>
        IN  /\ Len(prev.tx) = 1 /\ prev.tx[1].kind = "write"
            /\ prev.tx[1].bytes = payload
            /\ Len(last.tx) = 1 /\ last.tx[1].kind = "write"
            /\ last.tx[1].bytes = payload
            /\ adc_resolution = last.pre.adc_resolution
            /\ resolution_mask = last.pre.resolution_mask
            /\ adc_resolution = r
            /\ resolution_mask = ImpliedMask(r)

C11_Witness ==
    /\ prev.op = "set_adc_resolution" /\ prev.res = "Ok" /\ prev.arg = <<Bits18>>
    /\ Returned("set_adc_resolution") /\ last.arg = <<Bits18>>
    /\ last.tx[1].bytes = <<RES, 106>>
    /\ prev.pre.adc_resolution = Bits14

\* C12: enable(e) writes ENABLE before PDRIVER; when the ENABLE write
\* succeeds and the PDRIVER write fails, the call returns Error::Comm, ENABLE
\* holds the value just written (HEN = e), PDRIVER is unchanged, and nothing
\* is retried or rolled back.
C12_EnableThenPdriver ==
    last.op = "enable" =>
        /\ Len(last.tx) \in {1, 2}
        /\ last.tx[1].kind = "write" /\ last.tx[1].bytes[1] = ENABLE
        /\ Len(last.tx) = 2 =>
             /\ last.tx[1].ok
             /\ last.tx[2].kind = "write" /\ last.tx[2].bytes[1] = PDRIVER
             /\ ~last.tx[2].ok =>
                  /\ last.res = "Comm"
                  /\ regs[ENABLE] = last.tx[1].bytes[2]
                  /\ (BitAnd(regs[ENABLE], HEN) = HEN) = last.arg[1]
                  /\ regs[PDRIVER] = last.pre.regs[PDRIVER]

C12_Witness ==
    /\ last.op = "enable" /\ last.arg = <<TRUE>> /\ last.res = "Comm"
    /\ Len(last.tx) = 2 /\ last.tx[1].ok /\ ~last.tx[2].ok
    /\ regs[ENABLE] = 224 /\ last.pre.regs[ENABLE] = 0
    /\ regs[PDRIVER] = 0

\* C13: get_device_id performs exactly one bus transaction, a write-then-read
\* sending [0x00] and reading 1 byte, returns that byte unmodified on
\* success, and leaves the stored resolution, mask and address and every
\* device register unchanged.
C13_GetDeviceIdReadsOnly ==
    last.op = "get_device_id" =>
        /\ Len(last.tx) = 1
        /\ last.tx[1].kind = "write_read"
        /\ last.tx[1].bytes = <<ID>> /\ last.tx[1].len = 1
        /\ last.res = "Ok" => last.val = last.tx[1].data
        /\ adc_resolution = last.pre.adc_resolution
        /\ resolution_mask = last.pre.resolution_mask
        /\ address = DEFAULT_DEVICE_ADDRESS
        /\ regs = last.pre.regs

C13_Witness ==
    /\ Returned("get_device_id")
    /\ last.tx[1].data = <<255>> /\ last.val = <<255>>

\* the registers of the device
Registers == {ID, ENABLE, C1DATAM, PDRIVER, RES, HGAIN} \cup {9, 10, 13, 14, 15}

\* C14: every bus transaction targets the address fixed at construction
\* (0x44); a write sends exactly [register, value]; a read is one
\* write-then-read sending exactly [register]; read_raw_sample issues exactly
\* one read, of 7 bytes, starting at register 0x08.
C14_BusProtocol ==
    /\ address = DEFAULT_DEVICE_ADDRESS
    /\ \A i \in 1..Len(last.tx) :
         LET t == last.tx[i]
         IN  /\ t.addr = DEFAULT_DEVICE_ADDRESS
             /\ t.kind \in {"write", "write_read"}
             /\ t.bytes[1] \in Registers
             /\ t.kind = "write" => (Len(t.bytes) = 2 /\ t.bytes[2] \in 0..255)
             /\ t.kind = "write_read" => (Len(t.bytes) = 1 /\ t.len >= 1)
    /\ last.op = "read_raw_sample" =>
         /\ Len(last.tx) = 1
         /\ last.tx[1].kind = "write_read"
         /\ last.tx[1].bytes = <<8>> /\ last.tx[1].len = 7

C14_Witness ==
    /\ Returned("read_raw_sample")
    /\ last.tx[1].addr = 68 /\ last.tx[1].bytes = <<8>>
    /\ Len(last.tx[1].data) = 7
    /\ prev.op = "init" /\ Len(prev.tx) = 5

\* C15: sample_one performs exactly one sample block read; when the read
\* succeeds it returns None (here <<>>) whatever the block and the driver
\* state, when it fails it returns Error::Comm; it never changes the stored
\* resolution or mask.
C15_SampleOneYieldsNone ==
    last.op = "sample_one" =>
        /\ Len(last.tx) = 1
        /\ last.tx[1].kind = "write_read"
        /\ last.tx[1].bytes = <<C1DATAM>> /\ last.tx[1].len = SAMPLE_BLOCK_LEN
        /\ last.tx[1].ok => (last.res = "Ok" /\ last.val = <<>>)
        /\ ~last.tx[1].ok => last.res = "Comm"
        /\ adc_resolution = last.pre.adc_resolution
        /\ resolution_mask = last.pre.resolution_mask

C15_Witness ==
    /\ Returned("sample_one")
    /\ last.tx[1].data = <<255, 255, 255, 255, 255, 255, 255>>
    /\ resolution_mask = ImpliedMask(Bits18)
    /\ last.val = <<>>

\* C16: after a successful init on an instance whose stored resolution has
\* code c, from any device register contents, the device holds PDRIVER =
\* 0x68, RES = c | 0x60, HGAIN = 0x10 and ENABLE = 0xE8, and the stored mask
\* is (1 << (8 + c)) - 1.
C16_InitPostState ==
    Returned("init") =>
        LET c == last.pre.adc_resolution
        IN  /\ regs[PDRIVER] = 104
            /\ regs[RES] = BitOr(c, 96)
            /\ regs[HGAIN] = 16
            /\ regs[ENABLE] = 232
            /\ adc_resolution = c
            /\ resolution_mask = ImpliedMask(c)

C16_Witness ==
    /\ Returned("init")
    /\ last.pre.adc_resolution = Bits18
    /\ last.pre.regs = [r \in WritableRegs |-> 255]
    /\ regs = (ENABLE :> 232) @@ (PDRIVER :> 104) @@ (RES :> 106) @@ (HGAIN :> 16)
    /\ resolution_mask = 262143

\* C17: set_adc_resolution(r) stores r and the mask (1 << (8 + code(r))) - 1
\* whatever the outcome of the bus write: when the write fails the call
\* returns Error::Comm, the stored resolution and mask are those of r, and the
\* device's RES register keeps its previous value.
C17_SetResolutionStoresFirst ==
    last.op = "set_adc_resolution" =>
        /\ adc_resolution = last.arg[1]
        /\ resolution_mask = ImpliedMask(last.arg[1])
        /\ Len(last.tx) = 1
        /\ ~last.tx[1].ok =>
             /\ last.res = "Comm"
             /\ regs = last.pre.regs

C17_Witness ==
    /\ last.op = "set_adc_resolution" /\ last.res = "Comm"
    /\ last.arg = <<Bits18>>
    /\ last.pre.adc_resolution = Bits14
    /\ adc_resolution = Bits18 /\ resolution_mask = 262143
    /\ regs[RES] = 102

\* C18: whenever the most recent call among init and set_adc_resolution
\* returned success, the low nibble of the device's RES register is the code
\* of the stored resolution and its upper bits are 0x60; enable,
\* get_device_id, read_raw_sample and sample_one neither write RES nor change
\* the stored resolution or mask.
C18_HostDeviceAgree ==
    /\ cfg_res = "Ok" =>
         /\ BitAnd(regs[RES], 15) = adc_resolution
         /\ BitAnd(regs[RES], 240) = 96
    /\ last.op \in {"enable", "get_device_id", "read_raw_sample", "sample_one"} =>
         /\ \A i \in 1..Len(last.tx) :
              ~(last.tx[i].kind = "write" /\ last.tx[i].bytes[1] = RES)
         /\ regs[RES] = last.pre.regs[RES]
         /\ adc_resolution = last.pre.adc_resolution
         /\ resolution_mask = last.pre.resolution_mask

C18_Witness ==
    /\ cfg_res = "Ok"
    /\ prev.op = "set_adc_resolution" /\ prev.res = "Ok" /\ prev.arg = <<Bits8>>
    /\ prev.pre.regs[RES] = 255
    /\ Returned("enable")
    /\ regs[RES] = 96 /\ adc_resolution = Bits8

=============================================================================
